---------------------------- MODULE Spec2Model ----------------------------
(***************************************************************************)
(* A model of jupyterhub_traefik_proxy/traefik_utils.py:                   *)
(*                                                                         *)
(*   - the atomic commit of the routing table (atomic_writing,             *)
(*     persist_routes) on a file system shared with a reader (traefik)     *)
(*     and with a second committer;                                        *)
(*   - the pure naming functions (KVStorePrefix.validate, generate_rule,   *)
(*     generate_alias, generate_route_keys and their helpers).             *)
(*                                                                         *)
(* Python strings are sequences of one-character strings, so that          *)
(* startswith, endswith, split, replace, unquote and escape are computed   *)
(* character by character as the code computes them.                       *)
(***************************************************************************)
EXTENDS Integers, Sequences, FiniteSets, TLC

VARIABLES
    fs,        \* the file system: path -> file, or Absent
    pc,        \* each committer's position in persist_routes
    cid,       \* each committer's current commit (which snapshot it writes)
    tmp,       \* each committer's fileobj.name
    exc,       \* the exception in flight in each committer's atomic_writing
    result,    \* how each committer's last persist_routes ended
    at,        \* where a committer was when its process died
    nextId,    \* the next commit's number
    seen,      \* what the reader (traefik) last read at the destination
    op,        \* the naming function last called
    routespec, \* its routespec (or, for validate, its value) argument
    desig,     \* generate_alias's server_type / generate_route_keys's desig
    separator, \* generate_route_keys's separator
    proxy,     \* the proxy object: its class name and kv_traefik_prefix
    ret,       \* what the call returned (Raised: it raised)
    other,     \* the routespec of the generate_alias call before
    otherRet   \* and what that call returned

cvars == <<fs, pc, cid, tmp, exc, result, at, nextId, seen>>
fvars == <<op, routespec, desig, separator, proxy, ret, other, otherRet>>
vars == <<fs, pc, cid, tmp, exc, result, at, nextId, seen,
          op, routespec, desig, separator, proxy, ret, other, otherRet>>

-----------------------------------------------------------------------------
(* Bounds *)

\* how many commits (persist_routes calls) are begun in a run
MaxCommits == 3
\* how many chunks the serialized table reaches the file in
SnapLen == 2

-----------------------------------------------------------------------------
(* The file system *)

Absent == [owner |-> -1, data |-> <<>>, here |-> FALSE]

\* the two callers of persist_routes
Procs == {"c1", "c2"}

\* persist_routes's file argument, the path traefik watches
Dest == <<"rules.toml">>

\* toml.dumps(routes_dict) of commit c, as the chunks that reach the file;
\* commit 0 is the table on disk before any commit of the run
Snapshot(c) == [i \in 1..SnapLen |-> <<c, i>>]

\* variant: the canonical path is written in place, with no temporary file
TempPath_InPlace(path, n) == path

\* variant: one fixed temporary name, with no suffix of the call's own
TempPath_Shared(path, n) == path \o <<"-tmp-", 0>>

\* NamedTemporaryFile(prefix=os.path.abspath(path) + "-tmp-", delete=False):
\* the name is the prefix and a suffix no other temporary file of the run has
TempPath(path, n) == path \o <<"-tmp-", n>>

Paths == {Dest} \cup {Dest \o <<"-tmp-", n>> : n \in 0..MaxCommits}

File(c, d) == [owner |-> c, data |-> d, here |-> TRUE]


\* the chunks of commit c among the chunks d
OwnChunks(c, d) == SelectSeq(d, LAMBDA ch : ch[1] = c)

\* the file a committer's open file object writes to
TmpFile(p) == fs[tmp[p]]

-----------------------------------------------------------------------------
(* Strings *)

\* the characters route specs are drawn from: the path separator, the dash
\* it is replaced by, a letter, and percent escapes of '"', '-', '/' and of
\* bytes that are no UTF-8
Chars == {"/", "-", "x", "%", "2", "D", "F"}

\* the characters KV prefixes are drawn from
PrefixChars == {"/", "x"}

Strings(A, n) == UNION {[1..k -> A] : k \in 0..n}

\* what bytes.decode("utf-8", errors="replace") puts for a byte it cannot
\* decode: U+FFFD
Replacement == "U+FFFD"

StartsWith(s, c) == Len(s) > 0 /\ s[1] = c

EndsWith(s, c) == Len(s) > 0 /\ s[Len(s)] = c

\* s[i:]
From(s, i) == SubSeq(s, i, Len(s))

\* sep.join(parts), parts not empty
RECURSIVE Join(_, _)
Join(sep, parts) ==
    IF Len(parts) = 1
    THEN Head(parts)
    ELSE Head(parts) \o sep \o Join(sep, Tail(parts))

\* s.replace(a, b), a and b one character each
Replace1(s, a, b) == [i \in 1..Len(s) |-> IF s[i] = a THEN b ELSE s[i]]

\* s.find(c) + 1: the place of the first c in s, 0 when there is none
Find(s, c) ==
    IF \E i \in 1..Len(s) : s[i] = c
    THEN CHOOSE i \in 1..Len(s) : s[i] = c /\ \A j \in 1..(i - 1) : s[j] # c
    ELSE 0

-----------------------------------------------------------------------------
(* urllib.parse.unquote and escapism.escape, as the code calls them *)

HexDigits ==
    {"0", "1", "2", "3", "4", "5", "6", "7", "8", "9",
     "a", "b", "c", "d", "e", "f", "A", "B", "C", "D", "E", "F"}

\* the character of the byte %hl, for the bytes Chars can spell: 22, 2D, 2F
\* are ASCII; D2, DD, DF, F2, FD, FF start no UTF-8 sequence that Chars can
\* continue, and decode to U+FFFD each
HexChar(h, l) ==
    CASE h = "2" /\ l = "2" -> "\""
      [] h = "2" /\ l = "D" -> "-"
      [] h = "2" /\ l = "F" -> "/"
      [] OTHER -> Replacement

\* unquote(s): every %hl with two hex digits is replaced by its character,
\* any other % is kept
RECURSIVE unquote(_)
unquote(s) ==
    IF s = <<>> THEN <<>>
    ELSE IF s[1] = "%" /\ Len(s) >= 3 /\ s[2] \in HexDigits /\ s[3] \in HexDigits
         THEN <<HexChar(s[2], s[3])>> \o unquote(From(s, 4))
         ELSE <<s[1]>> \o unquote(Tail(s))

\* safe = string.ascii_letters + string.digits + "-", for the characters
\* the model's strings hold
Safe == {"x", "2", "D", "F", "-", "f", "p", "u", "b", "l", "i", "c"}

\* escapism's escape of one character outside safe: "_" and the hex of
\* each of its UTF-8 bytes
EscapeChar(c) ==
    CASE c = "/" -> <<"_", "2", "F">>
      [] c = "%" -> <<"_", "2", "5">>
      [] c = "\"" -> <<"_", "2", "2">>
      [] c = "_" -> <<"_", "5", "F">>
      [] c = Replacement -> <<"_", "E", "F", "_", "B", "F", "_", "B", "D">>

\* escapism.escape(s, safe=safe)
RECURSIVE escape(_)
escape(s) ==
    IF s = <<>> THEN <<>>
    ELSE (IF s[1] \in Safe THEN <<s[1]>> ELSE EscapeChar(s[1]))
         \o escape(Tail(s))

-----------------------------------------------------------------------------
(* The naming functions *)

\* how long a route spec is
MaxLen == 3
\* how long a configured KV prefix is
MaxPrefixLen == 3

\* the proxy classes that own a kv_traefik_prefix
ProxyClasses == {"TraefikEtcdProxy", "TraefikConsulProxy"}

\* "Consul" in type(obj).__name__
HasConsul(class) == class = "TraefikConsulProxy"

\* KVStorePrefix.validate(obj, value), obj of class `class`
validate(class, value) ==
    LET u == IF ~EndsWith(value, "/") THEN value \o <<"/">> ELSE value IN
    IF HasConsul(class) /\ StartsWith(u, "/") THEN From(u, 2) ELSE u

\* the backquote character (U+0060), which no TLA+ string can hold
Tick == "U+0060"

\* what a call that raised "returns"
Raised == <<"ValueError">>

\* the pieces of generate_rule's f-strings
T_PathPrefix == <<"P", "a", "t", "h", "P", "r", "e", "f", "i", "x", "(", Tick>>
T_Host == <<"H", "o", "s", "t", "(", Tick>>
T_Close == <<Tick, ")">>
T_And == <<" ", "&", "&", " ">>

\* variant: the host is cut at the last "/" (rsplit) instead of the first
generate_rule_rsplit(spec) ==
    LET r == unquote(spec) IN
    IF StartsWith(r, "/")
    THEN T_PathPrefix \o r \o T_Close
    ELSE IF Find(r, "/") = 0 THEN Raised
    ELSE LET k == CHOOSE i \in 1..Len(r) :
                      r[i] = "/" /\ \A j \in (i + 1)..Len(r) : r[j] # "/" IN
         T_Host \o SubSeq(r, 1, k - 1) \o T_Close \o T_And
         \o T_PathPrefix \o <<"/">> \o From(r, k + 1) \o T_Close

\* generate_rule(routespec); Raised when the unpacking of split("/", 1)
\* raises ValueError
generate_rule(spec) ==
    LET r == unquote(spec) IN
    IF StartsWith(r, "/")
    THEN T_PathPrefix \o r \o T_Close
    ELSE LET k == Find(r, "/") IN
         IF k = 0 THEN Raised
         ELSE LET host == SubSeq(r, 1, k - 1)
                  path_prefix == <<"/">> \o From(r, k + 1) IN
              T_Host \o host \o T_Close \o T_And
              \o T_PathPrefix \o path_prefix \o T_Close

W_public == <<"p", "u", "b", "l", "i", "c">>

\* variant: no special case for "/"
generate_alias_NoPublic(spec, server_type) ==
    server_type \o escape(Replace1(spec, "/", "-"))

\* generate_alias(routespec, server_type)
generate_alias(spec, server_type) ==
    LET r == IF spec = <<"/">>
             THEN <<"/">> \o W_public
             ELSE spec IN
    server_type \o escape(Replace1(r, "/", "-"))

W_http == <<"h", "t", "t", "p">>
W_services == <<"s", "e", "r", "v", "i", "c", "e", "s">>
W_loadbalancer == <<"l", "o", "a", "d", "b", "a", "l", "a", "n", "c", "e", "r">>
W_servers == <<"s", "e", "r", "v", "e", "r", "s">>
W_0 == <<"0">>
W_url == <<"u", "r", "l">>
W_serverstransport ==
    <<"s", "e", "r", "v", "e", "r", "s", "t", "r", "a", "n", "s", "p", "o", "r", "t">>
W_routers == <<"r", "o", "u", "t", "e", "r", "s">>
W_service == <<"s", "e", "r", "v", "i", "c", "e">>
W_rule == <<"r", "u", "l", "e">>

\* variant: the prefix is put whatever the separator
generate_backend_entry_PrefixAlways(prx, backend_alias, sep, url, weight) ==
    LET base == prx.kv_traefik_prefix
                \o Join(<<sep>>, <<W_http, W_services, backend_alias, W_loadbalancer>>) IN
    IF url THEN base \o <<sep>> \o Join(<<sep>>, <<W_servers, W_0, W_url>>)
    ELSE IF weight THEN base \o <<sep>> \o W_serverstransport
    ELSE base

\* generate_backend_entry(proxy, backend_alias, separator, url, weight);
\* `separator is "/"` is `separator == "/"` for the one-character strings
\* it is called with
generate_backend_entry(prx, backend_alias, sep, url, weight) ==
    LET start == IF sep = "/" THEN prx.kv_traefik_prefix ELSE <<>>
        base == start
                \o Join(<<sep>>, <<W_http, W_services, backend_alias, W_loadbalancer>>) IN
    IF url THEN base \o <<sep>> \o Join(<<sep>>, <<W_servers, W_0, W_url>>)
    ELSE IF weight THEN base \o <<sep>> \o W_serverstransport
    ELSE base

\* generate_frontend_backend_entry(proxy, frontend_alias)
generate_frontend_backend_entry(prx, frontend_alias) ==
    prx.kv_traefik_prefix \o W_http \o <<"/">> \o W_routers \o <<"/">>
    \o frontend_alias \o <<"/">> \o W_service

\* generate_frontend_rule_entry(proxy, frontend_alias, separator)
generate_frontend_rule_entry(prx, frontend_alias, sep) ==
    LET e == Join(<<sep>>, <<W_http, W_routers, frontend_alias>>) IN
    IF sep = "/" THEN prx.kv_traefik_prefix \o e \o <<sep>> \o W_rule ELSE e

\* generate_route_keys(proxy, routespec, desig, separator): the RouteKeys
generate_route_keys(prx, spec, dsg, sep) ==
    LET backend_alias == generate_alias(spec, dsg)
        frontend_alias == backend_alias IN
    IF sep # "."
    THEN [backend_alias |-> backend_alias,
          backend_url_path |->
              generate_backend_entry(prx, backend_alias, "/", TRUE, FALSE),
          backend_weight_path |->
              generate_backend_entry(prx, backend_alias, "/", FALSE, TRUE),
          frontend_alias |-> frontend_alias,
          frontend_backend_path |->
              generate_frontend_backend_entry(prx, frontend_alias),
          frontend_rule_path |->
              generate_frontend_rule_entry(prx, frontend_alias, "/")]
    ELSE [backend_alias |-> backend_alias,
          backend_url_path |->
              generate_backend_entry(prx, backend_alias, sep, FALSE, FALSE),
          backend_weight_path |-> <<>>,
          frontend_alias |-> frontend_alias,
          frontend_backend_path |-> <<>>,
          frontend_rule_path |->
              generate_frontend_rule_entry(prx, frontend_alias, sep)]

-----------------------------------------------------------------------------
(* The naming functions' state, while the commit protocol runs *)

NoCall ==
    /\ op = "none"
    /\ routespec = <<>>
    /\ desig = <<>>
    /\ separator = "/"
    /\ proxy = [class |-> "TraefikTomlProxy", kv_traefik_prefix |-> <<>>]
    /\ ret = <<>>
    /\ other = <<>>
    /\ otherRet = <<>>

-----------------------------------------------------------------------------
(* persist_routes(file, routes_dict), step by step *)

CommitInit ==
    /\ fs = [n \in Paths |-> IF n = Dest THEN File(0, Snapshot(0)) ELSE Absent]
    /\ pc = [p \in Procs |-> "idle"]
    /\ cid = [p \in Procs |-> 0]
    /\ tmp = [p \in Procs |-> TempPath(Dest, 0)]
    /\ exc = [p \in Procs |-> "none"]
    /\ result = [p \in Procs |-> "none"]
    /\ at = [p \in Procs |-> "none"]
    /\ nextId = 1
    /\ seen = File(0, Snapshot(0))

\* atomic_writing: fileobj = NamedTemporaryFile(..., mode="w", delete=False)
Begin(p) ==
    /\ pc[p] = "idle"
    /\ nextId <= MaxCommits
    /\ LET n == TempPath(Dest, nextId) IN
        /\ fs' = [fs EXCEPT ![n] = File(nextId, <<>>)]
        /\ tmp' = [tmp EXCEPT ![p] = n]
    /\ cid' = [cid EXCEPT ![p] = nextId]
    /\ nextId' = nextId + 1
    /\ pc' = [pc EXCEPT ![p] = "body"]
    /\ exc' = [exc EXCEPT ![p] = "none"]
    /\ result' = [result EXCEPT ![p] = "none"]
    /\ UNCHANGED <<at, seen>>

\* NamedTemporaryFile raises (before the try): no file, no cleanup
CreateFails(p) ==
    /\ pc[p] = "idle"
    /\ nextId <= MaxCommits
    /\ cid' = [cid EXCEPT ![p] = nextId]
    /\ nextId' = nextId + 1
    /\ pc' = [pc EXCEPT ![p] = "done"]
    /\ exc' = [exc EXCEPT ![p] = "create"]
    /\ result' = [result EXCEPT ![p] = "raised"]
    /\ UNCHANGED <<fs, tmp, at, seen>>

\* toml.dump(routes_dict, config_fd): the next chunk reaches the file
WriteChunk(p) ==
    /\ pc[p] = "body"
    /\ LET k == Len(OwnChunks(cid[p], TmpFile(p).data)) IN
        /\ k < SnapLen
        /\ fs' = [fs EXCEPT ![tmp[p]].data = Append(@, <<cid[p], k + 1>>)]
    /\ TmpFile(p).here
    /\ UNCHANGED <<pc, cid, tmp, exc, result, at, nextId, seen>>

\* the with-body returns: what is not yet in the file is in the buffer
BodyReturn(p) ==
    /\ pc[p] = "body"
    /\ pc' = [pc EXCEPT ![p] = "close"]
    /\ UNCHANGED <<fs, cid, tmp, exc, result, at, nextId, seen>>

\* the with-body raises (toml.dump's serialization or write error)
BodyRaise(p) ==
    /\ pc[p] = "body"
    /\ pc' = [pc EXCEPT ![p] = "close"]
    /\ exc' = [exc EXCEPT ![p] = "body"]
    /\ UNCHANGED <<fs, cid, tmp, result, at, nextId, seen>>

\* variant: os.replace runs whether or not the with block raised
AfterWith_Always(e) == "replace"

\* try: with fileobj as f: yield f; os.replace(...) finally: ...
\* an exception leaving the with block skips os.replace
AfterWith(e) == IF e = "none" THEN "replace" ELSE "cleanup"

\* the chunks of commit c still to reach a file that holds d
Rest(c, d) ==
    LET k == Len(OwnChunks(c, d)) IN
    [i \in 1..(SnapLen - k) |-> <<c, k + i>>]

\* `with fileobj` exits: the file is flushed and closed
Close(p) ==
    /\ pc[p] = "close"
    /\ fs' = IF exc[p] = "none" /\ TmpFile(p).here
             THEN [fs EXCEPT ![tmp[p]].data = @ \o Rest(cid[p], @)]
             ELSE fs
    /\ pc' = [pc EXCEPT ![p] = AfterWith(exc[p])]
    /\ UNCHANGED <<cid, tmp, exc, result, at, nextId, seen>>

\* the flush or the close of a body that returned raises
CloseFails(p) ==
    /\ pc[p] = "close"
    /\ exc[p] = "none"
    /\ exc' = [exc EXCEPT ![p] = "close"]
    /\ pc' = [pc EXCEPT ![p] = AfterWith("close")]
    /\ UNCHANGED <<fs, cid, tmp, result, at, nextId, seen>>

\* os.replace(fileobj.name, path): one atomic rename, or FileNotFoundError
Replace(p) ==
    /\ pc[p] = "replace"
    /\ IF TmpFile(p).here
       THEN /\ fs' = IF tmp[p] = Dest
                     THEN fs
                     ELSE [fs EXCEPT ![Dest] = TmpFile(p), ![tmp[p]] = Absent]
            /\ exc' = exc
       ELSE /\ fs' = fs
            /\ exc' = [exc EXCEPT ![p] = "replace"]
    /\ pc' = [pc EXCEPT ![p] = "cleanup"]
    /\ UNCHANGED <<cid, tmp, result, at, nextId, seen>>

\* os.replace raises an OSError and renames nothing
ReplaceFails(p) ==
    /\ pc[p] = "replace"
    /\ exc' = [exc EXCEPT ![p] = "replace"]
    /\ pc' = [pc EXCEPT ![p] = "cleanup"]
    /\ UNCHANGED <<fs, cid, tmp, result, at, nextId, seen>>

\* variant: the unlink's FileNotFoundError is not caught
UnlinkOutcome_Strict(here, e) == IF here THEN e ELSE "unlink"

\* try: os.unlink(fileobj.name) except FileNotFoundError: pass
\* the exception in flight after the finally block
UnlinkOutcome(here, e) == e

\* finally: the unlink, then atomic_writing returns or re-raises
Cleanup(p) ==
    /\ pc[p] = "cleanup"
    /\ fs' = [fs EXCEPT ![tmp[p]] = Absent]
    /\ LET e == UnlinkOutcome(TmpFile(p).here, exc[p]) IN
        /\ exc' = [exc EXCEPT ![p] = e]
        /\ result' = [result EXCEPT ![p] = IF e = "none" THEN "ok" ELSE "raised"]
    /\ pc' = [pc EXCEPT ![p] = "done"]
    /\ UNCHANGED <<cid, tmp, at, nextId, seen>>

\* the caller goes on, and may call persist_routes again
Finish(p) ==
    /\ pc[p] = "done"
    /\ pc' = [pc EXCEPT ![p] = "idle"]
    /\ UNCHANGED <<fs, cid, tmp, exc, result, at, nextId, seen>>

\* the process dies inside atomic_writing: nothing more of it runs
Crash(p) ==
    /\ pc[p] \in {"body", "close", "replace", "cleanup"}
    /\ at' = [at EXCEPT ![p] = pc[p]]
    /\ pc' = [pc EXCEPT ![p] = "crashed"]
    /\ UNCHANGED <<fs, cid, tmp, exc, result, nextId, seen>>

\* traefik (load_routes) reads the destination path
Read ==
    /\ seen' = fs[Dest]
    /\ UNCHANGED <<fs, pc, cid, tmp, exc, result, at, nextId>>

Init == CommitInit /\ NoCall

Next ==
    \/ \E p \in Procs : Begin(p) /\ UNCHANGED fvars
    \/ \E p \in Procs : CreateFails(p) /\ UNCHANGED fvars
    \/ \E p \in Procs : WriteChunk(p) /\ UNCHANGED fvars
    \/ \E p \in Procs : BodyReturn(p) /\ UNCHANGED fvars
    \/ \E p \in Procs : BodyRaise(p) /\ UNCHANGED fvars
    \/ \E p \in Procs : Close(p) /\ UNCHANGED fvars
    \/ \E p \in Procs : CloseFails(p) /\ UNCHANGED fvars
    \/ \E p \in Procs : Replace(p) /\ UNCHANGED fvars
    \/ \E p \in Procs : ReplaceFails(p) /\ UNCHANGED fvars
    \/ \E p \in Procs : Cleanup(p) /\ UNCHANGED fvars
    \/ \E p \in Procs : Finish(p) /\ UNCHANGED fvars
    \/ \E p \in Procs : Crash(p) /\ UNCHANGED fvars
    \/ Read /\ UNCHANGED fvars

Spec == Init /\ [][Next]_vars

-----------------------------------------------------------------------------
(* Calls of the naming functions *)

\* the route specs the functions are called with: every string of Chars up
\* to MaxLen, and "/public"
RouteSpecs == Strings(Chars, MaxLen) \cup {<<"/">> \o W_public}

\* the values kv_traefik_prefix is configured with
Prefixes == Strings(PrefixChars, MaxPrefixLen)

\* server_type / desig
Desigs == {<<>>, <<"f">>}

\* generate_route_keys's separator
Separators == {"/", "."}

\* c.<class>.kv_traefik_prefix = value: the trait validates on assignment
CallValidate(class, value) ==
    /\ op = "none"
    /\ op' = "validate"
    /\ routespec' = value
    /\ proxy' = [class |-> class, kv_traefik_prefix |-> validate(class, value)]
    /\ ret' = validate(class, value)
    /\ UNCHANGED <<desig, separator, other, otherRet>>

CallGenerateRule(s) ==
    /\ op = "none"
    /\ op' = "generate_rule"
    /\ routespec' = s
    /\ ret' = generate_rule(s)
    /\ UNCHANGED <<desig, separator, proxy, other, otherRet>>

CallGenerateAlias(s, d) ==
    /\ op = "none"
    /\ op' = "generate_alias"
    /\ routespec' = s
    /\ desig' = d
    /\ ret' = generate_alias(s, d)
    /\ UNCHANGED <<separator, proxy, other, otherRet>>

\* a second route's generate_alias, with the same server_type: the first
\* call's routespec and alias are kept beside it
CallGenerateAliasAgain(s) ==
    /\ op = "generate_alias"
    /\ op' = "generate_alias again"
    /\ other' = routespec
    /\ otherRet' = ret
    /\ routespec' = s
    /\ ret' = generate_alias(s, desig)
    /\ UNCHANGED <<desig, separator, proxy>>

\* generate_route_keys on a proxy of class `class` configured with `value`
CallGenerateRouteKeys(class, value, s, d, sep) ==
    /\ op = "none"
    /\ op' = "generate_route_keys"
    /\ routespec' = s
    /\ desig' = d
    /\ separator' = sep
    /\ proxy' = [class |-> class, kv_traefik_prefix |-> validate(class, value)]
    /\ ret' = generate_route_keys(proxy', s, d, sep)
    /\ UNCHANGED <<other, otherRet>>

\* one call, on a fresh interpreter
NextKeys ==
    \/ op = "none" /\ UNCHANGED cvars
       /\ \E c \in ProxyClasses, v \in Prefixes : CallValidate(c, v)
    \/ op = "none" /\ UNCHANGED cvars
       /\ \E s \in RouteSpecs : CallGenerateRule(s)
    \/ op = "none" /\ UNCHANGED cvars
       /\ \E s \in RouteSpecs, d \in Desigs : CallGenerateAlias(s, d)
    \/ op = "none" /\ UNCHANGED cvars
       /\ \E c \in ProxyClasses, v \in Prefixes, s \in RouteSpecs,
             d \in Desigs, sep \in Separators :
               CallGenerateRouteKeys(c, v, s, d, sep)

SpecKeys == Init /\ [][NextKeys]_vars

\* two routes named one after the other
NextAlias ==
    \/ op = "none" /\ UNCHANGED cvars
       /\ \E s \in RouteSpecs, d \in Desigs : CallGenerateAlias(s, d)
    \/ op = "generate_alias" /\ UNCHANGED cvars
       /\ \E s \in RouteSpecs : CallGenerateAliasAgain(s)

SpecAlias == Init /\ [][NextAlias]_vars

-----------------------------------------------------------------------------
(* The commit protocol's properties *)

\* a file that holds one whole serialized table
Complete(f) == f.here /\ f.data = Snapshot(f.owner)

\* the temporary paths
TempPaths == Paths \ {Dest}

\* commit p failed, or died, before its os.replace had renamed anything
FailedBeforeReplace(p) ==
    \/ exc[p] \in {"create", "body", "close", "replace"}
    \/ pc[p] = "crashed" /\ at[p] \in {"body", "close", "replace"}

\* C1: whatever step the commits are at, what a reader reads at the
\* destination path is one whole table (the one there before, or a
\* committed one), never an empty, truncated or partly written file.
C1_ReaderSeesWholeTable == Complete(seen)

\* a read between a commit's os.replace and its unlink saw that commit's table
C1_Witness ==
    \E p \in Procs :
        /\ pc[p] = "cleanup"
        /\ exc[p] = "none"
        /\ seen.owner = cid[p]
        /\ \E q \in Procs : pc[q] = "body" /\ TmpFile(q).data # <<>>

\* C2: a commit that failed or died before its os.replace completed has
\* left the destination a whole table that is not its own, and once
\* atomic_writing is left the failure has been raised to the caller.
C2_FailedCommitLeavesDest ==
    \A p \in Procs :
        FailedBeforeReplace(p) =>
            /\ Complete(fs[Dest])
            /\ fs[Dest].owner # cid[p]
            /\ OwnChunks(cid[p], fs[Dest].data) = <<>>
            /\ pc[p] = "done" => result[p] = "raised"

\* os.replace itself failed after a whole temporary file was written, and
\* another commit died in its body
C2_Witness ==
    \E p \in Procs :
        /\ pc[p] = "done"
        /\ exc[p] = "replace"
        /\ result[p] = "raised"
        /\ \E q \in Procs : pc[q] = "crashed" /\ at[q] = "body"

\* C3: once atomic_writing has returned or raised, no temporary file of
\* that call is left, and the commit whose table is at the destination
\* returned without an error (the unlink's FileNotFoundError is passed).
C3_NoTempFileLeft ==
    \A p \in Procs :
        pc[p] = "done" =>
            /\ \A n \in TempPaths : fs[n].here => fs[n].owner # cid[p]
            /\ fs[Dest].owner = cid[p] => result[p] = "ok"

\* both exits happened: one commit returned, the other raised from its body
C3_Witness ==
    \E p, q \in Procs :
        /\ pc[p] = "done" /\ result[p] = "ok" /\ fs[Dest].owner = cid[p]
        /\ pc[q] = "done" /\ exc[q] = "body"

\* d is the first chunks of commit c's table, in order
IsPrefixOf(d, c) ==
    /\ Len(d) <= SnapLen
    /\ \A i \in 1..Len(d) : d[i] = <<c, i>>

\* C10: with two commits interleaved step by step, every temporary file
\* holds only chunks of the commit that created it, in order; the
\* destination is always one whole table; and a commit between its
\* NamedTemporaryFile and its os.replace still has its own temporary file
\* (nobody else's cleanup removed or took it).
C10_CommitsDoNotInterleave ==
    /\ \A n \in TempPaths : fs[n].here => IsPrefixOf(fs[n].data, fs[n].owner)
    /\ Complete(fs[Dest])
    /\ \A p \in Procs :
        pc[p] \in {"body", "close", "replace"} =>
            TmpFile(p).here /\ TmpFile(p).owner = cid[p]

\* a whole commit (replace and cleanup) ran while an older one was in flight
C10_Witness ==
    \E p, q \in Procs :
        /\ pc[p] = "done" /\ result[p] = "ok"
        /\ pc[q] = "replace"
        /\ cid[q] < cid[p]
        /\ fs[Dest].owner = cid[p]

-----------------------------------------------------------------------------
(* The naming functions' properties *)

\* a route spec in canonical form: percent-decoding changes nothing
Canonical(s) == unquote(s) = s

\* C4: two different canonical route specs, with the same designator, never
\* get the same alias from generate_alias.
C4_AliasInjective ==
    (/\ op = "generate_alias again"
     /\ Canonical(routespec)
     /\ Canonical(other)
     /\ routespec # other)
    => ret # otherRet

\* C5: generate_alias and generate_route_keys give a percent-encoded route
\* spec the alias and the key paths of its decoded form.
C5_KeysOfDecodedSpec ==
    /\ op = "generate_alias" => ret = generate_alias(unquote(routespec), desig)
    /\ op = "generate_route_keys" =>
           ret = generate_route_keys(proxy, unquote(routespec), desig, separator)

\* C6: a validated prefix ends with "/", does not begin with "/" on a
\* Consul proxy, and validating it again changes nothing.
C6_PrefixNormalized ==
    op = "validate" =>
        /\ EndsWith(ret, "/")
        /\ HasConsul(proxy.class) => ~StartsWith(ret, "/")
        /\ validate(proxy.class, ret) = ret

\* C7, as stated: the alias of "/" is the designator and the escape of
\* "public".
C7_RootAliasIsPublic ==
    (op = "generate_alias" /\ routespec = <<"/">>) =>
        ret = desig \o escape(W_public)

\* C7, amended: the alias of "/" is the designator and "-public", the
\* escape of "/public" with its "/" replaced by "-".
C7_RootAliasIsDashPublic ==
    (op = "generate_alias" /\ routespec = <<"/">>) =>
        ret = desig \o <<"-">> \o W_public

\* generate_alias was called on "/" with a designator
C7_Witness ==
    op = "generate_alias" /\ routespec = <<"/">> /\ desig = <<"f">>

\* C8: with separator "/" the two aliases are the alias of the route spec
\* and the four paths are the prefix followed by
\* http/services/<alias>/loadbalancer/servers/0/url,
\* http/services/<alias>/loadbalancer/serverstransport,
\* http/routers/<alias>/service and http/routers/<alias>/rule; with
\* separator "." the weight and router-link paths are empty and the other
\* two are the dotted names, without the prefix.
C8_RouteKeyPaths ==
    op = "generate_route_keys" =>
        LET a == ret.backend_alias
            pre == proxy.kv_traefik_prefix
            sl == <<"/">>
            dot == <<".">> IN
        /\ a = generate_alias(routespec, desig)
        /\ ret.frontend_alias = a
        /\ separator = "/" =>
            /\ ret.backend_url_path =
                   pre \o W_http \o sl \o W_services \o sl \o a \o sl
                   \o W_loadbalancer \o sl \o W_servers \o sl \o W_0 \o sl \o W_url
            /\ ret.backend_weight_path =
                   pre \o W_http \o sl \o W_services \o sl \o a \o sl
                   \o W_loadbalancer \o sl \o W_serverstransport
            /\ ret.frontend_backend_path =
                   pre \o W_http \o sl \o W_routers \o sl \o a \o sl \o W_service
            /\ ret.frontend_rule_path =
                   pre \o W_http \o sl \o W_routers \o sl \o a \o sl \o W_rule
        /\ separator = "." =>
            /\ ret.backend_weight_path = <<>>
            /\ ret.frontend_backend_path = <<>>
            /\ ret.backend_url_path =
                   W_http \o dot \o W_services \o dot \o a \o dot \o W_loadbalancer
            /\ ret.frontend_rule_path = W_http \o dot \o W_routers \o dot \o a

\* the keys of a route spec that needs escaping, under a prefix, in KV mode
C8_Witness ==
    /\ op = "generate_route_keys"
    /\ separator = "/"
    /\ proxy.kv_traefik_prefix = <<"x", "/">>
    /\ routespec = <<"/", "x", "%">>
    /\ ret.backend_alias = <<"-", "x", "_", "2", "5">>

\* C9: the decoded spec that begins with "/" compiles to PathPrefix(`spec`);
\* any other is cut at its first "/" into host and remainder and compiles
\* to Host(`host`) && PathPrefix(`/remainder`); with no "/" to cut at, the
\* call raises.
C9_RuleBranches ==
    op = "generate_rule" =>
        LET r == unquote(routespec) IN
        IF StartsWith(r, "/")
        THEN ret = T_PathPrefix \o r \o T_Close
        ELSE IF \A i \in 1..Len(r) : r[i] # "/"
        THEN ret = Raised
        ELSE \E k \in 1..Len(r) :
                /\ r[k] = "/"
                /\ \A j \in 1..(k - 1) : r[j] # "/"
                /\ ret = T_Host \o SubSeq(r, 1, k - 1) \o T_Close \o T_And
                         \o T_PathPrefix \o <<"/">> \o SubSeq(r, k + 1, Len(r))
                         \o T_Close

\* a host-form spec with two "/" was compiled
C9_Witness ==
    /\ op = "generate_rule"
    /\ routespec = <<"x", "/", "/">>
    /\ ret # Raised

=============================================================================
